---- MODULE Spec2Model ----
(***************************************************************************)
(* TrackMe: the authentication core (session token codec, credential gate, *)
(* auth middleware) of the Hono worker, its validators, the routes that    *)
(* write to the D1 database, and the migration script, modelled from       *)
(* src/src/lib, src/src/routes, src/src/index.tsx and scripts.             *)
(*                                                                         *)
(* A JavaScript string is a sequence of character codes (UTF-16 units);    *)
(* a token is the string btoa produced, i.e. a sequence of the character   *)
(* codes of the base64 alphabet.  Date.now() is an integer of ms.          *)
(***************************************************************************)
EXTENDS Integers, Sequences, FiniteSets, Bags, TLC

(***************************************************************************)
(* Character codes.                                                        *)
(***************************************************************************)
NUL == 0
TAB == 9
LF == 10
VT == 11
FF == 12
CR == 13
SPACE == 32
PLUS == 43
MINUS == 45
SLASH == 47
DIGIT0 == 48
DIGIT9 == 57
COLON == 58
EQUALS == 61
UPPER_A == 65
UPPER_Z == 90
LOWER_A == 97
LOWER_Z == 122
LATIN1_MAX == 255

\* a value of a call that may throw: the value, or the exception
Ok(v) == [ok |-> TRUE, val |-> v]
Throw == [ok |-> FALSE, val |-> <<>>]

(***************************************************************************)
(* btoa / atob of the Workers runtime (WHATWG forgiving-base64).           *)
(***************************************************************************)
B64Char(i) ==
  IF i < 26 THEN UPPER_A + i
  ELSE IF i < 52 THEN LOWER_A + (i - 26)
  ELSE IF i < 62 THEN DIGIT0 + (i - 52)
  ELSE IF i = 62 THEN PLUS ELSE SLASH

B64Index(c) ==
  IF c >= UPPER_A /\ c <= UPPER_Z THEN c - UPPER_A
  ELSE IF c >= LOWER_A /\ c <= LOWER_Z THEN 26 + (c - LOWER_A)
  ELSE IF c >= DIGIT0 /\ c <= DIGIT9 THEN 52 + (c - DIGIT0)
  ELSE IF c = PLUS THEN 62
  ELSE IF c = SLASH THEN 63
  ELSE -1

\* btoa(s): throws InvalidCharacterError on a code above U+00FF
btoa(s) ==
  IF \E i \in 1..Len(s) : s[i] > LATIN1_MAX THEN Throw
  ELSE
    LET n == Len(s)
        byte(i) == IF i <= n THEN s[i] ELSE 0
        out(k) ==
          LET g == (k - 1) \div 4
              j == (k - 1) % 4
              b0 == byte(3 * g + 1)
              b1 == byte(3 * g + 2)
              b2 == byte(3 * g + 3)
          IN  IF j = 0 THEN B64Char(b0 \div 4)
              ELSE IF j = 1 THEN B64Char((b0 % 4) * 16 + (b1 \div 16))
              ELSE IF j = 2 THEN
                IF 3 * g + 2 > n THEN EQUALS
                ELSE B64Char((b1 % 16) * 4 + (b2 \div 64))
              ELSE
                IF 3 * g + 3 > n THEN EQUALS
                ELSE B64Char(b2 % 64)
    IN  Ok([k \in 1..(4 * ((n + 2) \div 3)) |-> out(k)])

IsAsciiWhitespace(c) == c \in {TAB, LF, FF, CR, SPACE}

\* atob(t): strips ASCII whitespace, drops one or two trailing '=' when the
\* length is a multiple of 4, throws when length % 4 = 1 or on a character
\* outside the alphabet, and discards the leftover bits
atob(t) ==
  LET s1 == SelectSeq(t, LAMBDA c : ~IsAsciiWhitespace(c))
      n1 == Len(s1)
      s2 == IF n1 % 4 = 0 /\ n1 >= 1 /\ s1[n1] = EQUALS
            THEN IF s1[n1 - 1] = EQUALS THEN SubSeq(s1, 1, n1 - 2)
                 ELSE SubSeq(s1, 1, n1 - 1)
            ELSE s1
      n == Len(s2)
      v(i) == B64Index(s2[i])
      byte(k) ==
        LET bit == 8 * (k - 1)
            i == (bit \div 6) + 1
            off == bit % 6
        IN  IF off = 0 THEN v(i) * 4 + (v(i + 1) \div 16)
            ELSE IF off = 2 THEN (v(i) % 16) * 16 + (v(i + 1) \div 4)
            ELSE (v(i) % 4) * 64 + v(i + 1)
  IN  IF n % 4 = 1 THEN Throw
      ELSE IF \E i \in 1..n : B64Index(s2[i]) = -1 THEN Throw
      ELSE Ok([k \in 1..((n * 6) \div 8) |-> byte(k)])

(***************************************************************************)
(* String.prototype.split(':'), parseInt(s, 10), Number -> decimal string. *)
(***************************************************************************)
\* the indices of the delimiter in s, in order
DelimiterPositions(s) ==
  SelectSeq([i \in 1..Len(s) |-> i], LAMBDA i : s[i] = COLON)

split(s) ==
  LET pos == DelimiterPositions(s)
      m == Len(pos)
      first(j) == IF j = 1 THEN 1 ELSE pos[j - 1] + 1
      last(j) == IF j = m + 1 THEN Len(s) ELSE pos[j] - 1
  IN  [j \in 1..(m + 1) |-> SubSeq(s, first(j), last(j))]

IsDigit(c) == c >= DIGIT0 /\ c <= DIGIT9

\* StrWhiteSpaceChar of the codes the model uses
IsJsWhitespace(c) == c \in {TAB, LF, VT, FF, CR, SPACE}

\* parseInt's value is kept within [-NegativeClip, NumberClip].  Every clock
\* value of the model is below NumberClip, so a timestamp at or above it has
\* a negative age like the clipped one; NegativeClip is above the expiry
\* window, so a timestamp at or below -NegativeClip has an age above the
\* window like the clipped one.
NumberClip == 1300000000
NegativeClip == 650000000

Min(a, b) == IF a <= b THEN a ELSE b

RECURSIVE DigitsValue(_, _, _, _)
\* value of the digits s[i..j] after acc, clipped at NumberClip
DigitsValue(s, i, j, acc) ==
  IF i > j THEN acc
  ELSE IF acc > (NumberClip - 9) \div 10 THEN NumberClip
  ELSE DigitsValue(s, i + 1, j, acc * 10 + (s[i] - DIGIT0))

\* the first index >= i of s that holds no whitespace
SkipWhitespace(s, i) ==
  CHOOSE e \in i..(Len(s) + 1) :
    /\ \A k \in i..(e - 1) : IsJsWhitespace(s[k])
    /\ e = Len(s) + 1 \/ ~IsJsWhitespace(s[e])

\* the first index >= i of s that holds no digit
SkipDigits(s, i) ==
  CHOOSE e \in i..(Len(s) + 1) :
    /\ \A k \in i..(e - 1) : IsDigit(s[k])
    /\ e = Len(s) + 1 \/ ~IsDigit(s[e])

\* parseInt(s, 10): [nan, val]
parseInt(s) ==
  LET a == SkipWhitespace(s, 1)
      neg == a <= Len(s) /\ s[a] = MINUS
      b == IF a <= Len(s) /\ s[a] \in {MINUS, PLUS} THEN a + 1 ELSE a
      e == SkipDigits(s, b)
      mag == DigitsValue(s, b, e - 1, 0)
  IN  IF e = b THEN [nan |-> TRUE, val |-> 0]
      ELSE [nan |-> FALSE,
            val |-> IF neg THEN 0 - Min(mag, NegativeClip) ELSE mag]

RECURSIVE toDecimal(_)
\* `${n}` of a non-negative integer
toDecimal(n) ==
  IF n < 10 THEN <<DIGIT0 + n>>
  ELSE Append(toDecimal(n \div 10), DIGIT0 + (n % 10))

(***************************************************************************)
(* Configuration and the token codec (lib/auth).                           *)
(***************************************************************************)
TOKEN_EXPIRY_DAYS == 7
TOKEN_MAX_LENGTH == 500

\* a maxAge of one day
maxAgeMs_OneDay == 24 * 60 * 60 * 1000

\* maxAge of validateToken, in ms
maxAgeMs == TOKEN_EXPIRY_DAYS * 24 * 60 * 60 * 1000

\* generateToken(username, password) at Date.now() = nowMs, with
\* Math.random().toString(36).substring(2, 15) = random
generateToken(username, password, nowMs, random) ==
  btoa(username \o <<COLON>> \o password \o <<COLON>> \o toDecimal(nowMs)
         \o <<COLON>> \o random)

\* validateToken's try block with the password left out of the comparison
validateTokenTry_UserOnly(token, validUser, validPassword, nowMs) ==
  IF Len(token) = 0 \/ Len(token) > TOKEN_MAX_LENGTH THEN Ok(FALSE)
  ELSE
    LET decoded == atob(token)
    IN  IF ~decoded.ok THEN Throw
        ELSE
          LET parts == split(decoded.val)
          IN  IF Len(parts) < 3 THEN Ok(FALSE)
              ELSE IF parts[1] # validUser THEN Ok(FALSE)
              ELSE
                LET ts == parseInt(parts[3])
                    tokenAge == nowMs - ts.val
                IN  IF ts.nan \/ tokenAge < 0 \/ tokenAge > maxAgeMs
                    THEN Ok(FALSE)
                    ELSE Ok(TRUE)

\* the try block of validateToken: Ok(boolean), or Throw when atob throws
validateTokenTry(token, validUser, validPassword, nowMs) ==
  IF Len(token) = 0 \/ Len(token) > TOKEN_MAX_LENGTH THEN Ok(FALSE)
  ELSE
    LET decoded == atob(token)
    IN  IF ~decoded.ok THEN Throw
        ELSE
          LET parts == split(decoded.val)
          IN  IF Len(parts) < 3 THEN Ok(FALSE)
              ELSE IF parts[1] # validUser \/ parts[2] # validPassword
                THEN Ok(FALSE)
              ELSE
                LET ts == parseInt(parts[3])
                    tokenAge == nowMs - ts.val
                IN  IF ts.nan \/ tokenAge < 0 \/ tokenAge > maxAgeMs
                    THEN Ok(FALSE)
                    ELSE Ok(TRUE)

\* what a call of validateToken gives its caller
Returned(b) == [threw |-> FALSE, value |-> b]
Thrown == [threw |-> TRUE, value |-> FALSE]

\* validateToken without its catch: what atob throws reaches the caller
validateToken_NoCatch(token, validUser, validPassword, nowMs) ==
  LET r == validateTokenTry(token, validUser, validPassword, nowMs)
  IN  IF r.ok THEN Returned(r.val) ELSE Thrown

\* validateToken: the try block, with catch { return false }
validateToken(token, validUser, validPassword, nowMs) ==
  LET r == validateTokenTry(token, validUser, validPassword, nowMs)
  IN  IF r.ok THEN Returned(r.val) ELSE Returned(FALSE)

\* the caller's test: if (validateToken(...))
Accepts(token, validUser, validPassword, nowMs) ==
  LET o == validateToken(token, validUser, validPassword, nowMs)
  IN  ~o.threw /\ o.value

(***************************************************************************)
(* State.                                                                  *)
(***************************************************************************)
VARIABLES
  envUser,    \* c.env.TRACKME_USER
  envPass,    \* c.env.TRACKME_PASSWORD
  now,        \* Date.now()
  tok,        \* token codec: the token string under examination
  tokInfo,    \* token codec: how tok came to be (issued, tampered, forged)
  verdict,    \* token codec: the last validateToken call on tok
  cookie,     \* the client's auth_token cookie
  pending,    \* failed logins waiting in their setTimeout
  resp,       \* the last response sent
  db,         \* c.env.DB: the rows of symptom_types and symptom_logs
  vcall,      \* validators: the last call, its argument and its outcome
  inflight,   \* the bag of handlers suspended at an await before a write
  mig         \* run-migrations.sh: schema_migrations and the script's run

vars == <<envUser, envPass, now, tok, tokInfo, verdict, cookie, pending, resp,
          db, vcall, inflight, mig>>
envVars == <<envUser, envPass>>
tokenVars == <<tok, tokInfo, verdict>>
httpVars == <<cookie, pending, resp>>
storeVars == <<db, vcall, inflight, mig>>

(***************************************************************************)
(* Bounds of the model.                                                    *)
(***************************************************************************)
\* Date.now() at the start; above the expiry window, as every real clock is
Epoch == 605000000
\* how many login delays after Epoch a token may be issued
MaxIssueSlots == 1
\* length of the nonce of the over-long token
PadLen == 380

STR_a == <<LOWER_A>>
STR_b == <<LOWER_A + 1>>
STR_c == <<LOWER_A + 2>>
STR_x == <<LOWER_A + 23>>
STR_i == <<LOWER_A + 8>>
\* "4fzz0q1vk8a", a typical Math.random().toString(36).substring(2, 15)
STR_nonce == <<52, 102, 122, 122, 48, 113, 49, 118, 107, 56, 97>>

LOGIN_DELAY_MS == 100

\* the configured pairs: plain, and with the delimiter in a field
ConfigPairs ==
  { <<STR_a, STR_b>>,
    <<STR_a, STR_b \o <<COLON>> \o STR_c>>,
    <<STR_a \o <<COLON>> \o STR_b, STR_c>> }

\* results of Math.random().toString(36).substring(2, 15)
Randoms == { STR_i, STR_nonce }

IssueInstants == { Epoch + k * LOGIN_DELAY_MS : k \in 0..MaxIssueSlots }

\* the clock values of the model: the issue instants and, for each, the
\* instants around the end of its expiry window
Instants ==
  UNION { { t, t + maxAgeMs - 1, t + maxAgeMs, t + maxAgeMs + 1 } :
          t \in IssueInstants }

LastInstant == CHOOSE t \in Instants : \A u \in Instants : u <= t


(***************************************************************************)
(* Credential validation (lib/validation).                                 *)
(***************************************************************************)
MAX_CREDENTIAL_LENGTH == 100

\* a form field as parseBody gives it: undefined, a string, or a File; and
\* the null a caller may pass
Undefined == [t |-> "undefined", s |-> <<>>]
Null == [t |-> "null", s |-> <<>>]
FileField == [t |-> "object", s |-> <<>>]
Str(x) == [t |-> "string", s |-> x]

\* how many characters of whitespace x starts with
LeadingWhitespace(x) ==
  CHOOSE d \in 0..Len(x) :
    /\ \A k \in 1..d : IsJsWhitespace(x[k])
    /\ d = Len(x) \/ ~IsJsWhitespace(x[d + 1])

\* how many characters of whitespace x ends with
TrailingWhitespace(x) ==
  CHOOSE d \in 0..Len(x) :
    /\ \A k \in (Len(x) - d + 1)..Len(x) : IsJsWhitespace(x[k])
    /\ d = Len(x) \/ ~IsJsWhitespace(x[Len(x) - d])

\* String.prototype.trim
trim(x) ==
  SubSeq(x, LeadingWhitespace(x) + 1, Len(x) - TrailingWhitespace(x))

\* sanitizeString(input, maxLength)
sanitizeString(input, maxLength) ==
  IF input.t # "string" THEN <<>>
  ELSE LET sanitized == trim(SelectSeq(input.s, LAMBDA c : c # NUL))
       IN  IF Len(sanitized) > maxLength THEN SubSeq(sanitized, 1, maxLength)
           ELSE sanitized

Falsy(v) == v.t \in {"undefined", "null"} \/ (v.t = "string" /\ Len(v.s) = 0)

ValidationError(message) == [ok |-> FALSE, message |-> message,
                             username |-> <<>>, password |-> <<>>]

\* validateCredentials(username, password): the sanitized pair, or the
\* ValidationError thrown
validateCredentials(username, password) ==
  IF Falsy(username) \/ Falsy(password)
    THEN ValidationError("Username and password are required")
  ELSE IF username.t # "string" \/ password.t # "string"
    THEN ValidationError("Invalid credentials format")
  ELSE IF Len(username.s) > MAX_CREDENTIAL_LENGTH
          \/ Len(password.s) > MAX_CREDENTIAL_LENGTH
    THEN ValidationError("Credentials too long")
  ELSE [ok |-> TRUE, message |-> "",
        username |-> sanitizeString(username, MAX_CREDENTIAL_LENGTH),
        password |-> sanitizeString(password, MAX_CREDENTIAL_LENGTH)]

(***************************************************************************)
(* Field validators (lib/validation).                                      *)
(***************************************************************************)
MAX_NOTE_LENGTH == 1000
MAX_SYMPTOM_NAME_LENGTH == 100
UNDERSCORE == 95
CASE_OFFSET == 32

\* String(v)
String(v) ==
  IF v.t = "string" THEN v.s
  ELSE IF v.t = "undefined" THEN <<117, 110, 100, 101, 102, 105, 110, 101, 100>>
  ELSE IF v.t = "null" THEN <<110, 117, 108, 108>>
  ELSE <<91, 111, 98, 106, 101, 99, 116, 32, 70, 105, 108, 101, 93>>

\* the outcome of a field validator: the value returned, or the
\* ValidationError thrown
Valid(v) == [ok |-> TRUE, message |-> "", val |-> v]
FieldError(message) == [ok |-> FALSE, message |-> message, val |-> Null]

\* validateId without the range check
validateId_NoRange(id) ==
  LET numId == parseInt(String(id))
  IN  IF numId.nan THEN FieldError("Invalid ID") ELSE Valid(numId.val)

\* validateId(id)
validateId(id) ==
  LET numId == parseInt(String(id))
  IN  IF numId.nan \/ numId.val < 1 THEN FieldError("Invalid ID")
      ELSE Valid(numId.val)

\* validateNotes that removes NUL bytes and trims, but keeps every character
validateNotes_NoLimit(notes) ==
  IF Falsy(notes) THEN Valid(Null)
  ELSE IF notes.t # "string" THEN FieldError("Notes must be a string")
  ELSE Valid(Str(sanitizeString(notes, Len(notes.s))))

\* validateNotes(notes)
validateNotes(notes) ==
  IF Falsy(notes) THEN Valid(Null)
  ELSE IF notes.t # "string" THEN FieldError("Notes must be a string")
  ELSE Valid(Str(sanitizeString(notes, MAX_NOTE_LENGTH)))

\* the keywords of sqlPatterns
KW_SELECT == <<83, 69, 76, 69, 67, 84>>
KW_INSERT == <<73, 78, 83, 69, 82, 84>>
KW_UPDATE == <<85, 80, 68, 65, 84, 69>>
KW_DELETE == <<68, 69, 76, 69, 84, 69>>
KW_DROP == <<68, 82, 79, 80>>
KW_UNION == <<85, 78, 73, 79, 78>>
KW_EXEC == <<69, 88, 69, 67>>
KW_EXECUTE == <<69, 88, 69, 67, 85, 84, 69>>
SQL_KEYWORDS == { KW_SELECT, KW_INSERT, KW_UPDATE, KW_DELETE, KW_DROP,
                  KW_UNION, KW_EXEC, KW_EXECUTE }

\* \w of a regular expression
IsWordChar(c) ==
  \/ c \in DIGIT0..DIGIT9
  \/ c \in UPPER_A..UPPER_Z
  \/ c \in LOWER_A..LOWER_Z
  \/ c = UNDERSCORE

\* the canonical form of a character under the i flag
Canonicalize(c) == IF c \in LOWER_A..LOWER_Z THEN c - CASE_OFFSET ELSE c

\* \bkw\b matches s at index i, letter case ignored
MatchesAt(s, i, kw) ==
  /\ i + Len(kw) - 1 <= Len(s)
  /\ \A k \in 1..Len(kw) : Canonicalize(s[i + k - 1]) = kw[k]
  /\ i = 1 \/ ~IsWordChar(s[i - 1])
  /\ i + Len(kw) > Len(s) \/ ~IsWordChar(s[i + Len(kw)])

\* sqlPatterns.test(s) with the i flag dropped
sqlPatternsTest_CaseSensitive(s) ==
  \E kw \in SQL_KEYWORDS, i \in 1..Len(s) :
    /\ i + Len(kw) - 1 <= Len(s)
    /\ \A k \in 1..Len(kw) : s[i + k - 1] = kw[k]
    /\ i = 1 \/ ~IsWordChar(s[i - 1])
    /\ i + Len(kw) > Len(s) \/ ~IsWordChar(s[i + Len(kw)])

\* sqlPatterns.test(s)
sqlPatternsTest(s) ==
  \E kw \in SQL_KEYWORDS, i \in 1..Len(s) : MatchesAt(s, i, kw)

\* validateSymptomName without the keyword test
validateSymptomName_NoKeywords(name) ==
  IF Falsy(name) \/ name.t # "string"
    THEN FieldError("Symptom name is required")
  ELSE LET sanitized == sanitizeString(name, MAX_SYMPTOM_NAME_LENGTH)
       IN  IF Len(sanitized) = 0
             THEN FieldError("Symptom name cannot be empty")
           ELSE Valid(sanitized)

\* validateSymptomName(name)
validateSymptomName(name) ==
  IF Falsy(name) \/ name.t # "string"
    THEN FieldError("Symptom name is required")
  ELSE LET sanitized == sanitizeString(name, MAX_SYMPTOM_NAME_LENGTH)
       IN  IF Len(sanitized) = 0
             THEN FieldError("Symptom name cannot be empty")
           ELSE IF sqlPatternsTest(sanitized)
             THEN FieldError("Invalid characters in symptom name")
           ELSE Valid(sanitized)

\* no validator was called
NoCall == [fn |-> "none", args |-> <<>>, out |-> FieldError("")]

\* the tables of c.env.DB, empty
\* seq is the AUTOINCREMENT counter of symptom_types
EmptyDb == [types |-> <<>>, logs |-> <<>>, seq |-> 0]

\* the versions of migrations/*.sql, as ls | sort lists them: "001", "002"
MIGRATION_FILES == << <<DIGIT0, DIGIT0, DIGIT0 + 1>>, <<DIGIT0, DIGIT0, DIGIT0 + 2>> >>

Versions == { MIGRATION_FILES[k] : k \in 1..Len(MIGRATION_FILES) }

\* no run of run-migrations.sh yet: schema_migrations is empty
\*   applied  : the versions in schema_migrations
\*   executed : how many times each migration file was executed with success
\*   pc, idx  : where the script is; APPLIED_MIGRATIONS is snapshot
\*   atStart  : schema_migrations when the run started
\*   runLog   : the versions this run executed, in order
\*   exit     : the exit status of the last run that ended
NoMigrations ==
  [applied |-> {}, executed |-> [v \in Versions |-> 0], pc |-> "idle",
   idx |-> 0, snapshot |-> {}, atStart |-> {}, runLog |-> <<>>, exit |-> 0]

(***************************************************************************)
(* Cookies, the auth middleware and the routes.                            *)
(***************************************************************************)
NoCookie == [set |-> FALSE, value |-> <<>>, maxAge |-> 0, httpOnly |-> FALSE,
             secure |-> FALSE, sameSite |-> "", path |-> "", setAt |-> 0]

\* setAuthCookie with a max-age of one day, whatever TOKEN_EXPIRY_DAYS is
setAuthCookie_OneDay(username, password, nowMs, random) ==
  LET token == generateToken(username, password, nowMs, random)
  IN  IF ~token.ok THEN Throw
      ELSE Ok([set |-> TRUE, value |-> token.val,
               maxAge |-> 24 * 60 * 60,
               httpOnly |-> TRUE, secure |-> TRUE, sameSite |-> "Strict",
               path |-> "/", setAt |-> nowMs])

\* setAuthCookie(c, username, password): the cookie set, or Throw when
\* generateToken throws
setAuthCookie(username, password, nowMs, random) ==
  LET token == generateToken(username, password, nowMs, random)
  IN  IF ~token.ok THEN Throw
      ELSE Ok([set |-> TRUE, value |-> token.val,
               maxAge |-> TOKEN_EXPIRY_DAYS * 24 * 60 * 60,
               httpOnly |-> TRUE, secure |-> TRUE, sameSite |-> "Strict",
               path |-> "/", setAt |-> nowMs])

\* deleteCookie left out of clearAuthCookie
clearAuthCookie_Keep(c) == c

\* clearAuthCookie(c): the client's cookie after deleteCookie(c, 'auth_token')
clearAuthCookie(c) == NoCookie

\* the Cookie header of a request, as getCookie(c, 'auth_token') reads it
NoHeader == [present |-> FALSE, value |-> <<>>]
Header(t) == [present |-> TRUE, value |-> t]

\* isAuthenticated(c)
isAuthenticated(header, validUser, validPassword, nowMs) ==
  IF ~header.present \/ Len(header.value) = 0 THEN FALSE
  ELSE Accepts(header.value, validUser, validPassword, nowMs)

\* authMiddleware that asks only whether the request carries a cookie
authMiddleware_CookiePresent(header, validUser, validPassword, nowMs) ==
  IF ~header.present \/ Len(header.value) = 0
    THEN [next |-> FALSE, status |-> 302, location |-> "/login"]
    ELSE [next |-> TRUE, status |-> 200, location |-> ""]

\* authMiddleware(c, next): run the handler, or redirect to /login
authMiddleware(header, validUser, validPassword, nowMs) ==
  IF ~isAuthenticated(header, validUser, validPassword, nowMs)
    THEN [next |-> FALSE, status |-> 302, location |-> "/login"]
    ELSE [next |-> TRUE, status |-> 200, location |-> ""]

PageRoutes == { "/", "/admin" }
ApiRoutes == { "/api/symptom-buttons", "/api/history-items",
               "/api/log-symptom", "/api/admin/symptom-list",
               "/api/admin/add-symptom", "/api/admin/symptom/:id" }
ProtectedRoutes == PageRoutes \cup ApiRoutes

BODY_SUCCESS == "Login exitoso, redirigiendo..."
\* the body reads "Credenciales inv(a-acute)lidas"
BODY_INVALID == "Credenciales invalidas"
BODY_SERVER_ERROR == "Error en el servidor"

\* the comparison of the login handler with the password left out
credentialsMatch_UserOnly(username, password, validUser, validPassword) ==
  username = validUser

\* the comparison of the login handler
credentialsMatch(username, password, validUser, validPassword) ==
  username = validUser /\ password = validPassword

NoResp ==
  [kind |-> "none", route |-> "", status |-> 0, body |-> "", location |-> "",
   hxRedirect |-> "", handlerRan |-> FALSE, header |-> NoHeader,
   username |-> Undefined, password |-> Undefined, startedAt |-> 0,
   at |-> 0, steps |-> <<>>, form |-> <<>>, modal |-> "", ticked |-> FALSE]

LoginResp(status, body, hx, u, p, started, at, steps) ==
  [NoResp EXCEPT !.kind = "login", !.route = "/api/login", !.status = status,
                 !.body = body, !.hxRedirect = hx, !.username = u,
                 !.password = p, !.startedAt = started, !.at = at,
                 !.steps = steps]

(***************************************************************************)
(* The token codec as a state machine: tokens are issued by generateToken, *)
(* altered by a client, or built by a client from scratch, and presented   *)
(* to validateToken as the clock advances.                                 *)
(***************************************************************************)
NoInfo == [kind |-> "none", at |-> 0, orig |-> <<>>, pair |-> <<>>]
NoVerdict == [called |-> FALSE, out |-> Returned(FALSE), at |-> 0, calls |-> 0]

Join3(a, b, c) == a \o <<COLON>> \o b \o <<COLON>> \o c
Join4(a, b, c, d) == Join3(a, b, c) \o <<COLON>> \o d

\* credential pairs a client may put in a token: the configured pair, and
\* pairs with one field wrong
GuessPairs(u, p) == { <<u, p>>, <<u, STR_x>>, <<STR_x, p>> }

\* payloads a client may encode itself
ForgedPayloads(u, p) ==
     { Join4(g[1], g[2], toDecimal(t), STR_i) :
         g \in GuessPairs(u, p), t \in {Epoch, LastInstant} }
  \cup { Join3(u, p, toDecimal(Epoch)),                  \* no nonce
         Join3(u, p, toDecimal(Epoch) \o STR_x),         \* digits, then junk
         Join4(u, p, <<MINUS, DIGIT0 + 5>>, STR_i),      \* "-5"
         Join4(u, p, STR_x, STR_i),                      \* not a number
         Join4(u, p, <<>>, STR_i),                       \* empty timestamp
         u \o <<COLON>> \o p,                            \* two parts
         u,                                              \* one part
         Join4(u, p, toDecimal(Epoch), [k \in 1..PadLen |-> LOWER_Z]) }

\* strings a client may present as a token
ForgedTokens(u, p) ==
     { btoa(x).val : x \in ForgedPayloads(u, p) }
  \cup { <<>>,                                           \* empty
         <<33, 33, 33, 33>>,                             \* "!!!!"
         <<81, 85, 74, 68, 69>> }                        \* "QUJDE", length 5

\* characters a client may write over a character of a token
TamperChars == { UPPER_A, LOWER_Z, EQUALS, 33 }

TAMPER_WINDOW == 10

\* how many times validateToken may be called on a token at one instant
MaxCalls == 2

InitToken ==
  /\ \E c \in ConfigPairs : envUser = c[1] /\ envPass = c[2]
  /\ now = Epoch
  /\ tok = <<>>
  /\ tokInfo = NoInfo
  /\ verdict = NoVerdict
  /\ cookie = NoCookie
  /\ pending = <<>>
  /\ resp = NoResp
  /\ db = EmptyDb
  /\ vcall = NoCall
  /\ inflight = EmptyBag
  /\ mig = NoMigrations

\* a successful login issues a token
Issue(random) ==
  LET g == generateToken(envUser, envPass, now, random)
  IN  /\ tokInfo = NoInfo
      /\ g.ok
      /\ tok' = g.val
      /\ tokInfo' = [kind |-> "issued", at |-> now, orig |-> g.val,
                      pair |-> <<envUser, envPass>>]
      /\ verdict' = NoVerdict
      /\ UNCHANGED <<envVars, now, httpVars, storeVars>>

\* the client overwrites the i-th character from the end of an issued token
Tamper(i, ch) ==
  LET k == Len(tok) - i + 1
  IN  /\ tokInfo.kind = "issued"
      /\ k >= 1
      /\ tok[k] # ch
      /\ tok' = [tok EXCEPT ![k] = ch]
      /\ tokInfo' = [tokInfo EXCEPT !.kind = "tampered"]
      /\ verdict' = NoVerdict
      /\ UNCHANGED <<envVars, now, httpVars, storeVars>>

\* the client builds a token itself
Forge(t) ==
  /\ tokInfo = NoInfo
  /\ tok' = t
  /\ tokInfo' = [kind |-> "forged", at |-> 0, orig |-> t, pair |-> <<>>]
  /\ verdict' = NoVerdict
  /\ UNCHANGED <<envVars, now, httpVars, storeVars>>

\* a check that accepts a token once only: a later call on it returns false
Validate_SingleUse ==
  /\ tokInfo.kind # "none"
  /\ verdict.calls < MaxCalls
  /\ verdict' = [called |-> TRUE,
                 out |-> IF verdict.called THEN Returned(FALSE)
                         ELSE validateToken(tok, envUser, envPass, now),
                 at |-> now,
                 calls |-> verdict.calls + 1]
  /\ UNCHANGED <<envVars, now, tok, tokInfo, httpVars, storeVars>>

\* the server checks the token at the current clock, once or again
Validate ==
  /\ tokInfo.kind # "none"
  /\ verdict.calls < MaxCalls
  /\ verdict' = [called |-> TRUE,
                 out |-> validateToken(tok, envUser, envPass, now),
                 at |-> now,
                 calls |-> verdict.calls + 1]
  /\ UNCHANGED <<envVars, now, tok, tokInfo, httpVars, storeVars>>

\* the token is put aside, and another may be examined
Discard ==
  /\ tokInfo # NoInfo
  /\ tok' = <<>>
  /\ tokInfo' = NoInfo
  /\ verdict' = NoVerdict
  /\ UNCHANGED <<envVars, now, httpVars, storeVars>>

\* the clock advances; the verdict of the earlier instant is dropped
TickToken(t) ==
  /\ t > now
  /\ now' = t
  /\ verdict' = NoVerdict
  /\ UNCHANGED <<envVars, tok, tokInfo, httpVars, storeVars>>

NextToken ==
  \/ \E r \in Randoms : Issue(r)
  \/ \E i \in 1..TAMPER_WINDOW, ch \in TamperChars : Tamper(i, ch)
  \/ \E t \in ForgedTokens(envUser, envPass) : Forge(t)
  \/ Validate
  \/ Discard
  \/ \E t \in Instants : TickToken(t)

SpecToken == InitToken /\ [][NextToken]_vars

(***************************************************************************)
(* Properties of the token codec (checked under SpecToken).                *)
(***************************************************************************)
\* the verdict of a call made on an issued token
IssuedVerdictAt(t) ==
  tokInfo.kind = "issued" /\ verdict.called /\ verdict.at = t

\* the parts of the decoded token, <<>> when it does not decode
DecodedParts(t) ==
  LET d == atob(t) IN IF d.ok THEN split(d.val) ELSE <<>>

\* C1: Round trip: for every configured pair, the delimiter ':' in a field
\* included, validateToken(generateToken(u, p), u, p) at the clock instant
\* of the issuance returns true.
C1_RoundTrip ==
  IssuedVerdictAt(tokInfo.at) => verdict.out = Returned(TRUE)

\* C2: Expiry boundary: a token issued at T is accepted at T + expiry - 1
\* and rejected at T + expiry + 1, and a token whose embedded timestamp is
\* later than the clock is rejected.
C2_ExpiryBoundary ==
  /\ IssuedVerdictAt(tokInfo.at + maxAgeMs - 1) => verdict.out.value
  /\ IssuedVerdictAt(tokInfo.at + maxAgeMs + 1) => ~verdict.out.value
  /\ verdict.called =>
       LET parts == DecodedParts(tok)
       IN  (Len(parts) >= 3 /\ ~parseInt(parts[3]).nan
              /\ parseInt(parts[3]).val > verdict.at) => ~verdict.out.value

\* C3: Unforgeability by credential re-check: validateToken returns true
\* only if the username and password embedded in the decoded token are
\* exactly the configured ones.
C3_CredentialRecheck ==
  (verdict.called /\ verdict.out.value) =>
    LET parts == DecodedParts(tok)
    IN  Len(parts) >= 3 /\ parts[1] = envUser /\ parts[2] = envPass

\* a token the client built itself, with the configured pair, is accepted
C3_Witness ==
  verdict.called /\ verdict.out.value /\ tokInfo.kind = "forged"

C9_NeverThrows ==
  verdict.called =>
    /\ ~verdict.out.threw
    /\ verdict.out.value \in BOOLEAN
    /\ (\/ Len(tok) = 0
        \/ Len(tok) > TOKEN_MAX_LENGTH
        \/ ~atob(tok).ok
        \/ Len(DecodedParts(tok)) < 3) => verdict.out = Returned(FALSE)
    /\ ~verdict.out.value => verdict.out = Returned(FALSE)

\* validateToken was called on a token that atob throws on
C9_Witness ==
  verdict.called /\ Len(tok) > 0 /\ ~atob(tok).ok

MaxPending == 1

\* the clock values of the worker's runs: the instants a login may start
\* at, and the first instant after the window of a token issued at Epoch
HttpInstants == IssueInstants \cup { Epoch + maxAgeMs + 1 }

\* the username fields a client may post
RawUsers(u) ==
  { Str(u), Str(<<SPACE>> \o u), Str(STR_x), Undefined }

\* the password fields a client may post
RawPasswords(p) ==
  { Str(p), Str(STR_x), Str([k \in 1..(MAX_CREDENTIAL_LENGTH + 1) |-> LOWER_A]) }

\* the Cookie headers a client may send besides its own cookie: none, one
\* it built with a wrong password, one it built with the right pair, and
\* a string that is not base64
ForgedHeaders(u, p) ==
  { NoHeader,
    Header(btoa(Join4(u, STR_x, toDecimal(Epoch), STR_i)).val),
    Header(btoa(Join4(u, p, toDecimal(Epoch), STR_i)).val),
    Header(<<33, 33, 33, 33>>) }

Init ==
  /\ \E c \in ConfigPairs : envUser = c[1] /\ envPass = c[2]
  /\ now = Epoch
  /\ tok = <<>>
  /\ tokInfo = NoInfo
  /\ verdict = NoVerdict
  /\ cookie = NoCookie
  /\ pending = <<>>
  /\ resp = NoResp
  /\ db = EmptyDb
  /\ vcall = NoCall
  /\ inflight = EmptyBag
  /\ mig = NoMigrations

\* a request starts only when no login waits in its delay
CanStart_AfterDelay == resp = NoResp /\ pending = <<>>

\* a request may start: the worker is not in the middle of a handler (a
\* login waiting in its await of the delay has yielded)
CanStart == resp = NoResp

\* POST /api/login, up to its response or its await of the delay
Login(username, password, random) ==
  LET v == validateCredentials(username, password)
  IN  /\ CanStart
      /\ UNCHANGED <<envVars, now, tokenVars, storeVars>>
      /\ IF ~v.ok
           THEN \* catch (error instanceof ValidationError)
             /\ resp' = LoginResp(400, v.message, "", username, password,
                                  now, now,
                                  <<"initDatabase", "validate", "respond">>)
             /\ UNCHANGED <<cookie, pending>>
         ELSE IF credentialsMatch(v.username, v.password, envUser, envPass)
           THEN
             LET set == setAuthCookie(v.username, v.password, now, random)
             IN  IF set.ok
                   THEN /\ cookie' = set.val
                        /\ resp' = LoginResp(200, BODY_SUCCESS, "/", username,
                                             password, now, now,
                                             <<"initDatabase", "validate",
                                               "compare",
                                               "setAuthCookie", "respond">>)
                        /\ UNCHANGED pending
                   ELSE \* catch (error): generic 500
                        /\ resp' = LoginResp(500, BODY_SERVER_ERROR, "",
                                             username, password, now, now,
                                             <<"initDatabase", "validate",
                                               "compare",
                                               "setAuthCookie", "respond">>)
                        /\ UNCHANGED <<cookie, pending>>
         ELSE \* await new Promise(resolve => setTimeout(resolve, 100))
             /\ Len(pending) < MaxPending
             /\ pending' = Append(pending, [username |-> username,
                                            password |-> password,
                                            startedAt |-> now])
             /\ UNCHANGED <<cookie, resp>>

\* a failed login that also deletes the client's cookie
LoginTimer_ClearsCookie ==
  /\ resp = NoResp
  /\ pending # <<>>
  /\ now >= Head(pending).startedAt + LOGIN_DELAY_MS
  /\ resp' = LoginResp(401, BODY_INVALID, "", Head(pending).username,
                       Head(pending).password, Head(pending).startedAt, now,
                       <<"initDatabase", "validate", "compare", "delay",
                         "respond">>)
  /\ pending' = Tail(pending)
  /\ cookie' = NoCookie
  /\ UNCHANGED <<envVars, now, tokenVars, storeVars>>

\* the timer of the oldest waiting login fires, and the login answers
LoginTimer ==
  /\ resp = NoResp
  /\ pending # <<>>
  /\ now >= Head(pending).startedAt + LOGIN_DELAY_MS
  /\ resp' = LoginResp(401, BODY_INVALID, "", Head(pending).username,
                       Head(pending).password, Head(pending).startedAt, now,
                       <<"initDatabase", "validate", "compare", "delay",
                         "respond">>)
  /\ pending' = Tail(pending)
  /\ UNCHANGED <<envVars, now, tokenVars, cookie, storeVars>>

\* a request to a protected route, with the Cookie header the client sends
Request(route, header) ==
  LET auth == authMiddleware(header, envUser, envPass, now)
  IN  /\ CanStart
      /\ resp' = [NoResp EXCEPT !.kind = "route", !.route = route,
                                !.status = auth.status,
                                !.location = auth.location,
                                !.handlerRan = auth.next,
                                !.header = header, !.startedAt = now,
                                !.at = now,
                                !.steps = IF auth.next
                                            THEN <<"initDatabase",
                                                   "authMiddleware", "handler">>
                                            ELSE <<"initDatabase",
                                                   "authMiddleware">>]
      /\ UNCHANGED <<envVars, now, tokenVars, cookie, pending, storeVars>>

\* POST /api/logout, with the Cookie header the client sends:
\* clearAuthCookie, HX-Redirect to /login
Logout(header) ==
  /\ CanStart
  /\ cookie' = clearAuthCookie(cookie)
  /\ resp' = [NoResp EXCEPT !.kind = "logout", !.route = "/api/logout",
                            !.status = 200, !.hxRedirect = "/login",
                            !.handlerRan = TRUE, !.header = header,
                            !.startedAt = now, !.at = now,
                            !.steps = <<"initDatabase", "clearAuthCookie",
                                        "respond">>]
  /\ UNCHANGED <<envVars, now, tokenVars, pending, storeVars>>

\* the response goes out to the client, at the instant it was made
Deliver ==
  /\ resp # NoResp
  /\ resp' = NoResp
  /\ UNCHANGED <<envVars, now, tokenVars, cookie, pending, storeVars>>

\* the clock advances
Tick(t) ==
  /\ resp = NoResp
  /\ t > now
  /\ now' = t
  /\ UNCHANGED <<envVars, tokenVars, httpVars, storeVars>>

\* the Cookie headers of a request: the client's cookie, or one it made up
Headers ==
  (IF cookie.set THEN { Header(cookie.value) } ELSE {})
    \cup ForgedHeaders(envUser, envPass)

Next ==
  \/ \E u \in RawUsers(envUser), p \in RawPasswords(envPass), r \in Randoms :
       Login(u, p, r)
  \/ LoginTimer
  \/ \E h \in Headers, route \in ProtectedRoutes : Request(route, h)
  \/ \E h \in Headers : Logout(h)
  \/ Deliver
  \/ \E t \in HttpInstants : Tick(t)

Spec == Init /\ [][Next]_vars

(***************************************************************************)
(* Properties of the worker (checked under Spec).                          *)
(***************************************************************************)
\* the request of the response carried a token validateToken accepts
RespAuthenticated ==
  resp.header.present
    /\ Accepts(resp.header.value, envUser, envPass, resp.at)

C5_Unauthenticated ==
  (resp.kind = "route" /\ ~RespAuthenticated) =>
    /\ ~resp.handlerRan
    /\ IF resp.route \in ApiRoutes
         THEN resp.status = 401
         ELSE resp.status = 302 /\ resp.location = "/login"

\* C6: Every failure response of a login, whatever its cause, comes after
\* the delay step: at least LOGIN_DELAY_MS after the request started.
C6_DelayBeforeFailure ==
  (resp.kind = "login" /\ resp.status # 200) =>
    /\ \E i \in 1..Len(resp.steps) : resp.steps[i] = "delay"
    /\ resp.at >= resp.startedAt + LOGIN_DELAY_MS

\* both fields are strings of 1..100 characters
WellFormed(username, password) ==
  /\ username.t = "string" /\ password.t = "string"
  /\ Len(username.s) \in 1..MAX_CREDENTIAL_LENGTH
  /\ Len(password.s) \in 1..MAX_CREDENTIAL_LENGTH

\* the one response of a failed login, and the steps that lead to it
IsInvalidCredentialsResponse ==
  /\ resp.status = 401
  /\ resp.body = BODY_INVALID
  /\ resp.hxRedirect = ""
  /\ resp.steps = <<"initDatabase", "validate", "compare", "delay", "respond">>

\* C7 as stated: a login with a well-formed pair that differs from the
\* configured pair gets the one failure response, by the same steps.
C7_SameFailure ==
  (resp.kind = "login" /\ WellFormed(resp.username, resp.password)
     /\ <<resp.username.s, resp.password.s>> # <<envUser, envPass>>) =>
    IsInvalidCredentialsResponse

\* C7 (amended): a login with a well-formed pair whose sanitized form (NUL
\* bytes removed, whitespace trimmed) differs from the configured pair gets
\* the one failure response, status 401 with the body BODY_INVALID, by the
\* same steps, whichever field is wrong.
C7_SameFailureSanitized ==
  (resp.kind = "login" /\ WellFormed(resp.username, resp.password)
     /\ <<sanitizeString(resp.username, MAX_CREDENTIAL_LENGTH),
          sanitizeString(resp.password, MAX_CREDENTIAL_LENGTH)>>
          # <<envUser, envPass>>) =>
    IsInvalidCredentialsResponse

\* a login with a wrong username and the right password was answered
C7_Witness ==
  /\ resp.kind = "login" /\ resp.status = 401
  /\ resp.username = Str(STR_x) /\ resp.password = Str(envPass)

\* C10: Every auth_token cookie a successful login sets carries HttpOnly,
\* Secure and SameSite=Strict, and its max-age in seconds is the expiry
\* window of validateToken, so cookie and token expire at the same instant.
C10_CookieAttributes ==
  /\ cookie.set =>
       /\ cookie.httpOnly /\ cookie.secure /\ cookie.sameSite = "Strict"
       /\ cookie.maxAge * 1000 = maxAgeMs
       /\ cookie.setAt + cookie.maxAge * 1000 = cookie.setAt + maxAgeMs
  /\ (resp.kind = "login" /\ resp.status = 200) =>
       cookie.set /\ cookie.setAt = resp.at

\* a login succeeded and set the cookie
C10_Witness ==
  cookie.set /\ resp.kind = "login" /\ resp.status = 200

(***************************************************************************)
(* The field validators as a state machine: each step is one call of a     *)
(* validator on an argument a caller may pass.                             *)
(***************************************************************************)
\* a string of n characters c
Chars(n, c) == [k \in 1..n |-> c]

\* arguments of validateId
IdInputs ==
  { Undefined,
    Null,
    FileField,
    Str(<<>>),                                            \* ""
    Str(<<97, 98, 99>>),                                  \* "abc"
    Str(<<48>>),                                          \* "0"
    Str(<<45, 53>>),                                      \* "-5"
    Str(<<55>>),                                          \* "7"
    Str(<<49, 50>>),                                      \* "12"
    Str(<<48, 48, 55>>),                                  \* "007"
    Str(<<32, 55>>),                                      \* " 7"
    Str(<<43, 55>>),                                      \* "+7"
    Str(<<55, 97, 98, 99>>),                              \* "7abc"
    Str(<<49, 46, 53>>),                                  \* "1.5"
    Str(<<48, 46, 57>>) }                                 \* "0.9"

\* arguments of validateNotes
NoteInputs ==
  { Undefined,
    Null,
    FileField,
    Str(<<>>),                                            \* ""
    Str(<<32, 32>>),                                      \* two spaces
    Str(<<97, 98, 99>>),                                  \* "abc"
    Str(<<SPACE, LOWER_A, NUL, LOWER_A + 1, SPACE>>),     \* " a\0b "
    Str(Chars(MAX_NOTE_LENGTH, LOWER_A)),                 \* 1000 characters
    Str(Chars(MAX_NOTE_LENGTH + 1, LOWER_A)),             \* 1001 characters
    Str(<<SPACE>> \o Chars(MAX_NOTE_LENGTH, LOWER_A)),    \* 1001, the first a space
    Str(Chars(MAX_NOTE_LENGTH + 1, SPACE)) }              \* 1001 spaces

\* arguments of validateSymptomName
NameInputs ==
  { Undefined,
    Null,
    FileField,
    Str(<<>>),                                            \* ""
    Str(<<32>>),                                          \* " "
    Str(<<NUL>>),                                         \* "\0"
    Str(<<97, 98>>),                                      \* "ab"
    Str(<<68, 111, 108, 111, 114, 32, 100, 101, 32, 99, 97, 98, 101, 122, 97>>),\* "Dolor de cabeza"
    Str(<<39, 59, 32, 68, 82, 79, 80, 32, 84, 65, 66, 76, 69, 32, 120, 59, 32, 45, 45>>),\* "'; DROP TABLE x; --"
    Str(<<100, 114, 111, 112>>),                          \* "drop"
    Str(<<83, 101, 108, 101, 99, 116>>),                  \* "Select"
    Str(<<105, 110, 115, 101, 114, 116, 32, 120>>),       \* "insert x"
    Str(<<120, 32, 85, 80, 68, 65, 84, 69>>),             \* "x UPDATE"
    Str(<<100, 101, 108, 101, 116, 101>>),                \* "delete"
    Str(<<117, 110, 105, 111, 110>>),                     \* "union"
    Str(<<101, 120, 101, 99>>),                           \* "exec"
    Str(<<69, 120, 101, 99, 117, 116, 101>>),             \* "Execute"
    Str(<<100, 114, 111, 112, 112, 101, 100>>),           \* "dropped"
    Str(<<68, 82, 79, 80, 95, 120>>),                     \* "DROP_x"
    Str(<<101, 120, 101, 99, 117, 116, 101, 115>>),       \* "executes"
    Str(KW_DROP \o <<NUL>> \o STR_x),                     \* "DROP\0x"
    Str(<<68, 82, NUL, 79, 80>>),                         \* "DR\0OP"
    Str(Chars(MAX_SYMPTOM_NAME_LENGTH, LOWER_A)),         \* 100 characters
    Str(Chars(MAX_SYMPTOM_NAME_LENGTH + 1, LOWER_A)),     \* 101 characters
    Str(Chars(MAX_SYMPTOM_NAME_LENGTH, LOWER_A) \o <<SPACE>> \o KW_DROP),\* 100 characters, then " DROP"
    Str(Chars(MAX_SYMPTOM_NAME_LENGTH - 4, LOWER_A) \o <<SPACE>> \o KW_DROP \o STR_x) }\* " DROPx", cut to " DROP"

\* arguments of validateCredentials, for either field
CredentialInputs ==
  { Undefined,
    Null,
    FileField,
    Str(<<>>),                                            \* ""
    Str(<<32>>),                                          \* " "
    Str(<<NUL>>),                                         \* "\0"
    Str(STR_a),                                           \* "a"
    Str(<<SPACE>> \o STR_a \o <<SPACE>>),                 \* " a "
    Str(STR_a \o <<NUL>>),                                \* "a\0"
    Str(Chars(MAX_CREDENTIAL_LENGTH, LOWER_A)),           \* 100 characters
    Str(Chars(MAX_CREDENTIAL_LENGTH + 1, LOWER_A)) }      \* 101 characters

\* arguments of sanitizeString: the input and the maximum length
SanitizeInputs ==
  { <<Undefined, MAX_NOTE_LENGTH>>,
    <<Str(<<>>), MAX_NOTE_LENGTH>>,
    <<Str(<<SPACE, LOWER_A, NUL, LOWER_A + 1, SPACE>>), MAX_NOTE_LENGTH>>,
    <<Str(Chars(MAX_NOTE_LENGTH + 1, LOWER_A)), MAX_NOTE_LENGTH>>,
    <<Str(Chars(MAX_SYMPTOM_NAME_LENGTH, LOWER_A)), MAX_SYMPTOM_NAME_LENGTH>>,
    \* 99 characters, a space, and one more character
    <<Str(Chars(MAX_SYMPTOM_NAME_LENGTH - 1, LOWER_A) \o <<SPACE>> \o STR_b),
      MAX_SYMPTOM_NAME_LENGTH>>,
    <<Str(Chars(MAX_NOTE_LENGTH - 1, LOWER_A) \o <<TAB>> \o STR_b),
      MAX_NOTE_LENGTH>> }

InitValidate ==
  /\ envUser = STR_a /\ envPass = STR_b
  /\ now = Epoch
  /\ tok = <<>>
  /\ tokInfo = NoInfo
  /\ verdict = NoVerdict
  /\ cookie = NoCookie
  /\ pending = <<>>
  /\ resp = NoResp
  /\ db = EmptyDb
  /\ vcall = NoCall
  /\ inflight = EmptyBag
  /\ mig = NoMigrations

CallValidateId(id) ==
  /\ vcall = NoCall
  /\ vcall' = [fn |-> "validateId", args |-> <<id>>, out |-> validateId(id)]
  /\ UNCHANGED <<envVars, now, tokenVars, httpVars, db, inflight, mig>>

CallValidateNotes(notes) ==
  /\ vcall = NoCall
  /\ vcall' = [fn |-> "validateNotes", args |-> <<notes>>,
               out |-> validateNotes(notes)]
  /\ UNCHANGED <<envVars, now, tokenVars, httpVars, db, inflight, mig>>

CallValidateSymptomName(name) ==
  /\ vcall = NoCall
  /\ vcall' = [fn |-> "validateSymptomName", args |-> <<name>>,
               out |-> validateSymptomName(name)]
  /\ UNCHANGED <<envVars, now, tokenVars, httpVars, db, inflight, mig>>

CallValidateCredentials(username, password) ==
  /\ vcall = NoCall
  /\ vcall' = [fn |-> "validateCredentials", args |-> <<username, password>>,
               out |-> validateCredentials(username, password)]
  /\ UNCHANGED <<envVars, now, tokenVars, httpVars, db, inflight, mig>>

CallSanitizeString(input, maxLength) ==
  /\ vcall = NoCall
  /\ vcall' = [fn |-> "sanitizeString", args |-> <<input, maxLength>>,
               out |-> Valid(Str(sanitizeString(input, maxLength)))]
  /\ UNCHANGED <<envVars, now, tokenVars, httpVars, db, inflight, mig>>

\* the call returns to its caller, and another may be made
Return ==
  /\ vcall # NoCall
  /\ vcall' = NoCall
  /\ UNCHANGED <<envVars, now, tokenVars, httpVars, db, inflight, mig>>

NextValidate ==
  \/ \E id \in IdInputs : CallValidateId(id)
  \/ \E notes \in NoteInputs : CallValidateNotes(notes)
  \/ \E name \in NameInputs : CallValidateSymptomName(name)
  \/ \E u \in CredentialInputs, p \in CredentialInputs :
       CallValidateCredentials(u, p)
  \/ \E a \in SanitizeInputs : CallSanitizeString(a[1], a[2])
  \/ Return

SpecValidate == InitValidate /\ [][NextValidate]_vars

(***************************************************************************)
(* Properties of the field validators (checked under SpecValidate).        *)
(***************************************************************************)
\* v is a string of decimal digits whose value is at least 1
IsPositiveDecimal(v) ==
  /\ v.t = "string"
  /\ Len(v.s) >= 1
  /\ \A k \in 1..Len(v.s) : v.s[k] \in DIGIT0..DIGIT9
  /\ \E k \in 1..Len(v.s) : v.s[k] # DIGIT0

\* the value of a string of decimal digits
DecimalValue(s) == DigitsValue(s, 1, Len(s), 0)

\* the integer that t starts with, if any: whitespace, an optional sign,
\* and the longest run of digits, whatever follows it
LeadingIntegers(t) ==
  { IF x[2] = x[1] + 2 /\ t[x[1] + 1] = MINUS
      THEN 0 - DecimalValue(SubSeq(t, x[2], x[3]))
      ELSE DecimalValue(SubSeq(t, x[2], x[3])) :
    x \in { y \in (0..Len(t)) \X (1..(Len(t) + 1)) \X (1..Len(t)) :
              /\ \A k \in 1..y[1] : IsJsWhitespace(t[k])
              /\ \/ y[2] = y[1] + 1
                 \/ y[2] = y[1] + 2 /\ t[y[1] + 1] \in {PLUS, MINUS}
              /\ y[2] <= y[3]
              /\ \A k \in y[2]..y[3] : t[k] \in DIGIT0..DIGIT9
              /\ y[3] = Len(t) \/ t[y[3] + 1] \notin DIGIT0..DIGIT9 } }

\* C14 as stated: validateId fails for every argument that is not a
\* decimal integer >= 1, returns the value of a positive decimal string,
\* and returns only integers >= 1.
C14_ValidateId ==
  vcall.fn = "validateId" =>
    LET id == vcall.args[1]
    IN  /\ ~IsPositiveDecimal(id) => ~vcall.out.ok
        /\ IsPositiveDecimal(id) =>
             vcall.out.ok /\ vcall.out.val = DecimalValue(id.s)
        /\ vcall.out.ok => vcall.out.val \in Nat /\ vcall.out.val >= 1

\* C14 (amended): validateId fails with ValidationError for every argument
\* whose string form does not start (after whitespace and an optional
\* sign) with a decimal integer >= 1, as for "abc", "0" and "-5"; otherwise
\* it returns that leading integer, whatever follows the digits ("7" gives
\* 7, and so does "7abc"); every value it returns is an integer >= 1.
C14_ValidateIdLeadingInteger ==
  vcall.fn = "validateId" =>
    LET t == String(vcall.args[1])
    IN  /\ vcall.out.ok <=> \E n \in LeadingIntegers(t) : n >= 1
        /\ vcall.out.ok => vcall.out.val \in LeadingIntegers(t)
        /\ ~vcall.out.ok => vcall.out = FieldError("Invalid ID")
        /\ vcall.out.ok => vcall.out.val \in Nat /\ vcall.out.val >= 1
        /\ IsPositiveDecimal(vcall.args[1]) =>
             vcall.out.ok /\ vcall.out.val = DecimalValue(vcall.args[1].s)

\* validateId was called on "7abc" and returned 7
C14_Witness ==
  /\ vcall.fn = "validateId"
  /\ vcall.args[1] = Str(<<55, 97, 98, 99>>)
  /\ vcall.out = Valid(7)

\* x with its NUL bytes removed, then its whitespace trimmed
Stripped(x) == trim(SelectSeq(x, LAMBDA c : c # NUL))

\* the first n characters of x
Prefix(x, n) == IF Len(x) > n THEN SubSeq(x, 1, n) ELSE x

\* x has no NUL byte and no whitespace at either end
IsClean(x) ==
  /\ \A k \in 1..Len(x) : x[k] # NUL
  /\ Len(x) > 0 => ~IsJsWhitespace(x[1]) /\ ~IsJsWhitespace(x[Len(x)])

\* C15 as stated: validateNotes returns null for a null or absent argument,
\* a string of at most 1000 characters for any string, and a string of
\* exactly 1000 characters for a string of 1001.
C15_ValidateNotes ==
  vcall.fn = "validateNotes" =>
    LET notes == vcall.args[1]
    IN  /\ notes \in {Null, Undefined} => vcall.out = Valid(Null)
        /\ notes.t = "string" =>
             /\ vcall.out.ok /\ vcall.out.val.t = "string"
             /\ Len(vcall.out.val.s) <= MAX_NOTE_LENGTH
        /\ (notes.t = "string" /\ Len(notes.s) = MAX_NOTE_LENGTH + 1) =>
             /\ vcall.out.ok /\ vcall.out.val.t = "string"
             /\ Len(vcall.out.val.s) = MAX_NOTE_LENGTH

\* C15 (amended): validateNotes returns null for a null, absent or empty
\* argument, and for a non-empty string returns a string of length <= 1000:
\* the argument with NUL bytes removed and whitespace trimmed, cut to its
\* first 1000 characters; so a string of length 1001 with no NUL byte and
\* no whitespace at its ends yields its first 1000 characters (truncation,
\* not an error).
C15_ValidateNotesSanitized ==
  vcall.fn = "validateNotes" =>
    LET notes == vcall.args[1]
    IN  /\ (notes \in {Null, Undefined} \/ notes = Str(<<>>)) =>
             vcall.out = Valid(Null)
        /\ (notes.t = "string" /\ Len(notes.s) > 0) =>
             /\ vcall.out.ok /\ vcall.out.val.t = "string"
             /\ Len(vcall.out.val.s) <= MAX_NOTE_LENGTH
             /\ vcall.out.val.s = Prefix(Stripped(notes.s), MAX_NOTE_LENGTH)
        /\ (notes.t = "string" /\ Len(notes.s) = MAX_NOTE_LENGTH + 1
              /\ IsClean(notes.s)) =>
             /\ vcall.out.ok
             /\ vcall.out.val = Str(SubSeq(notes.s, 1, MAX_NOTE_LENGTH))

\* validateNotes was called on 1001 letters and returned the first 1000
C15_Witness ==
  /\ vcall.fn = "validateNotes"
  /\ vcall.args[1].t = "string"
  /\ Len(vcall.args[1].s) = MAX_NOTE_LENGTH + 1
  /\ IsClean(vcall.args[1].s)
  /\ vcall.out.ok
  /\ Len(vcall.out.val.s) = MAX_NOTE_LENGTH

\* the upper-case form of an ASCII letter
Upper(c) == IF c >= LOWER_A /\ c <= LOWER_Z THEN c - CASE_OFFSET ELSE c

\* x holds one of the SQL keywords as a whole word, in any letter case
ContainsKeyword(x) ==
  \E kw \in SQL_KEYWORDS, i \in 1..Len(x) :
    LET j == i + Len(kw) - 1
    IN  /\ j <= Len(x)
        /\ [k \in i..j |-> Upper(x[k])] = [k \in i..j |-> kw[k - i + 1]]
        /\ i > 1 => ~IsWordChar(x[i - 1])
        /\ j < Len(x) => ~IsWordChar(x[j + 1])

\* C16 as stated: validateSymptomName fails when the argument is missing,
\* is empty after sanitization, or holds an SQL keyword as a whole word in
\* any letter case; every name it returns has 1..100 characters and no
\* such keyword.
C16_ValidateSymptomName ==
  vcall.fn = "validateSymptomName" =>
    LET name == vcall.args[1]
    IN  /\ (\/ name.t # "string"
            \/ Len(Stripped(name.s)) = 0
            \/ ContainsKeyword(name.s)) => ~vcall.out.ok
        /\ vcall.out.ok =>
             /\ Len(vcall.out.val) \in 1..MAX_SYMPTOM_NAME_LENGTH
             /\ ~ContainsKeyword(vcall.out.val)

\* C16 (amended): validateSymptomName fails with ValidationError exactly
\* when the argument is missing or not a string, or when its sanitized
\* form (NUL bytes removed, whitespace trimmed, cut to the first 100
\* characters) is empty or holds SELECT, INSERT, UPDATE, DELETE, DROP,
\* UNION, EXEC or EXECUTE as a whole word in any letter case (as in
\* "'; DROP TABLE x; --"); otherwise it returns that sanitized form, so
\* every name it returns has 1..100 characters and none of those keywords.
C16_ValidateSymptomNameSanitized ==
  vcall.fn = "validateSymptomName" =>
    LET name == vcall.args[1]
        clean == Prefix(Stripped(name.s), MAX_SYMPTOM_NAME_LENGTH)
    IN  /\ ~vcall.out.ok <=>
             \/ name.t # "string"
             \/ Len(clean) = 0
             \/ ContainsKeyword(clean)
        /\ vcall.out.ok =>
             /\ vcall.out.val = clean
             /\ Len(vcall.out.val) \in 1..MAX_SYMPTOM_NAME_LENGTH
             /\ ~ContainsKeyword(vcall.out.val)

\* validateSymptomName was called on "'; DROP TABLE x; --" and threw
C16_Witness ==
  /\ vcall.fn = "validateSymptomName"
  /\ vcall.args[1] = Str(<<39, 59, 32, 68, 82, 79, 80, 32, 84, 65, 66, 76, 69, 32, 120, 59, 32, 45, 45>>)
  /\ vcall.out = FieldError("Invalid characters in symptom name")

\* C17: every username and password validateCredentials returns is a
\* string of 1..100 characters with no NUL byte and no whitespace at
\* either end; arguments that are missing, not strings, or longer than 100
\* characters fail with ValidationError.
C17_CredentialShape ==
  vcall.fn = "validateCredentials" =>
    /\ vcall.out.ok =>
         \A x \in {vcall.out.username, vcall.out.password} :
           Len(x) \in 1..MAX_CREDENTIAL_LENGTH /\ IsClean(x)
    /\ (\E v \in {vcall.args[1], vcall.args[2]} :
          v.t # "string" \/ Len(v.s) > MAX_CREDENTIAL_LENGTH) =>
         ~vcall.out.ok

(***************************************************************************)
(* Logout and the login delay (checked under Spec).                        *)
(***************************************************************************)
\* the Cookie header the client's browser sends: its auth_token cookie
ClientHeader == IF cookie.set THEN Header(cookie.value) ELSE NoHeader

\* C12: Logout ends the client's session: POST /api/logout deletes the
\* client's auth_token cookie, a request that client then makes to a
\* protected route is not served, only a successful login gives the
\* client a cookie again, and a cookie's token changes only by deletion or
\* by the next successful login.
C12_LogoutEndsSession ==
  [][ /\ (resp.kind = "none" /\ resp'.kind = "logout") => ~cookie'.set
      /\ (resp.kind = "none" /\ resp'.kind = "route" /\ ~cookie.set
            /\ resp'.header = ClientHeader) => ~resp'.handlerRan
      /\ (cookie'.set /\ cookie' # cookie) =>
           resp'.kind = "login" /\ resp'.status = 200 ]_vars

\* a client holding a token validateToken accepts has logged out
C12_Witness ==
  resp.kind = "logout" /\ RespAuthenticated /\ ~cookie.set

\* C13: POST /api/logout is protected: the logout handler runs only for a
\* request whose token validateToken accepts.
C13_LogoutProtected ==
  (resp.kind = "logout" /\ resp.handlerRan) => RespAuthenticated

MaxRows == 1

\* how many symptom types are ever inserted
MaxTypes == 2

\* how many handlers may be suspended between their SELECT and their write
MaxInflight == 2

BODY_LOGGED == "Registrado correctamente"
BODY_LOG_ERROR == "Error al guardar el registro"
\* the bodies read "S(i-acute)ntoma ..." and "Este s(i-acute)ntoma ..."
BODY_ADDED == "Sintoma agregado correctamente"
BODY_EXISTS == "Este sintoma ya existe"

\* new Date().toISOString().split('T')[0], as a count of days
today(nowMs) == nowMs \div (24 * 60 * 60 * 1000)

\* LOWER(name) of SQLite
LOWER(x) ==
  [k \in 1..Len(x) |->
     IF x[k] \in UPPER_A..UPPER_Z THEN x[k] + CASE_OFFSET ELSE x[k]]

\* the response of a route of the app
RouteResp(route, header, form, status, body, ran, steps, nowMs) ==
  [NoResp EXCEPT !.kind = "route", !.route = route, !.status = status,
                 !.body = body, !.handlerRan = ran, !.header = header,
                 !.form = form, !.startedAt = nowMs, !.at = nowMs,
                 !.location = IF status = 302 THEN "/login" ELSE "",
                 !.steps = steps]

BODY_ADD_ERROR == "Error al agregar sintoma"
BODY_NOT_FOUND == "Sintoma no encontrado"
BODY_DELETED == "Sintoma eliminado correctamente"
BODY_INTERNAL == "Internal Server Error"
BODY_HEALTHY == "healthy"

\* a handler suspended at the await between its SELECT and its write
Suspended(route, header, form, name, id) ==
  [route |-> route, header |-> header, form |-> form, name |-> name,
   id |-> id]

\* SELECT id FROM symptom_types WHERE id = ? finds a row
TypeExists(d, id) == \E k \in 1..Len(d.types) : d.types[k].id = id

\* POST /api/log-symptom with the INSERT moved before validateNotes
LogSymptom_WriteFirst(header, type_id, notes) ==
  LET R(status, body, ran, steps) ==
        RouteResp("/api/log-symptom", header, <<type_id, notes>>, status,
                  body, ran, steps, now)
      Handle(auth, id, nt) ==
      /\ CanStart
      /\ UNCHANGED <<envVars, now, tokenVars, cookie, pending, vcall,
                     inflight, mig>>
      /\ IF ~auth.next
           THEN /\ resp' = R(auth.status, "", FALSE,
                             <<"initDatabase", "authMiddleware">>)
                /\ UNCHANGED db
         ELSE IF ~id.ok
           THEN /\ resp' = R(400, id.message, TRUE,
                             <<"initDatabase", "authMiddleware", "validateId",
                               "respond">>)
                /\ UNCHANGED db
         ELSE IF ~TypeExists(db, id.val)
           THEN /\ resp' = R(500, BODY_LOG_ERROR, TRUE,
                             <<"initDatabase", "authMiddleware", "validateId",
                               "insert", "respond">>)
                /\ UNCHANGED db
         ELSE /\ Len(db.logs) < MaxRows
              /\ db' = [db EXCEPT !.logs =
                          Append(@, [type_id |-> id.val, notes |-> Null,
                                     medication_taken |-> 0,
                                     date |-> today(now)])]
              /\ resp' = IF nt.ok
                           THEN R(200, BODY_LOGGED, TRUE,
                                  <<"initDatabase", "authMiddleware",
                                    "validateId", "insert", "validateNotes",
                                    "respond">>)
                         ELSE R(400, nt.message, TRUE,
                                <<"initDatabase", "authMiddleware",
                                  "validateId", "insert", "validateNotes",
                                  "respond">>)
  IN  Handle(authMiddleware(header, envUser, envPass, now),
             validateId(type_id), validateNotes(notes))

\* POST /api/log-symptom
LogSymptom(header, type_id, notes) ==
  LET R(status, body, ran, steps) ==
        RouteResp("/api/log-symptom", header, <<type_id, notes>>, status,
                  body, ran, steps, now)
      Handle(auth, id, nt) ==
      /\ CanStart
      /\ UNCHANGED <<envVars, now, tokenVars, cookie, pending, vcall,
                     inflight, mig>>
      /\ IF ~auth.next
           THEN /\ resp' = R(auth.status, "", FALSE,
                             <<"initDatabase", "authMiddleware">>)
                /\ UNCHANGED db
         ELSE IF ~id.ok
           THEN /\ resp' = R(400, id.message, TRUE,
                             <<"initDatabase", "authMiddleware", "validateId",
                               "respond">>)
                /\ UNCHANGED db
         ELSE IF ~nt.ok
           THEN /\ resp' = R(400, nt.message, TRUE,
                             <<"initDatabase", "authMiddleware", "validateId",
                               "validateNotes", "respond">>)
                /\ UNCHANGED db
         ELSE IF ~TypeExists(db, id.val)
           THEN \* the INSERT throws: FOREIGN KEY constraint failed
                /\ resp' = R(500, BODY_LOG_ERROR, TRUE,
                             <<"initDatabase", "authMiddleware", "validateId",
                               "validateNotes", "insert", "respond">>)
                /\ UNCHANGED db
         ELSE /\ Len(db.logs) < MaxRows
              /\ db' = [db EXCEPT !.logs =
                          Append(@, [type_id |-> id.val, notes |-> nt.val,
                                     medication_taken |-> 0,
                                     date |-> today(now)])]
              /\ resp' = R(200, BODY_LOGGED, TRUE,
                           <<"initDatabase", "authMiddleware", "validateId",
                             "validateNotes", "insert", "respond">>)
  IN  Handle(authMiddleware(header, envUser, envPass, now),
             validateId(type_id), validateNotes(notes))

\* POST /api/admin/add-symptom, up to the await of its SELECT
AddSymptom(header, name) ==
  LET R(status, body, ran, steps) ==
        RouteResp("/api/admin/add-symptom", header, <<name>>, status, body,
                  ran, steps, now)
      Handle(auth, v) ==
      /\ CanStart
      /\ UNCHANGED <<envVars, now, tokenVars, cookie, pending, vcall, db, mig>>
      /\ IF ~auth.next
           THEN /\ resp' = R(auth.status, "", FALSE,
                             <<"initDatabase", "authMiddleware">>)
                /\ UNCHANGED inflight
         ELSE IF ~v.ok
           THEN /\ resp' = R(400, v.message, TRUE,
                             <<"initDatabase", "authMiddleware",
                               "validateSymptomName", "respond">>)
                /\ UNCHANGED inflight
         ELSE IF \E k \in 1..Len(db.types) :
                   LOWER(db.types[k].name) = LOWER(v.val)
           THEN /\ resp' = R(400, BODY_EXISTS, TRUE,
                             <<"initDatabase", "authMiddleware",
                               "validateSymptomName", "select", "respond">>)
                /\ UNCHANGED inflight
         ELSE /\ BagCardinality(inflight) < MaxInflight
              /\ inflight' = inflight (+)
                               SetToBag({Suspended("/api/admin/add-symptom",
                                                   header, <<name>>, v.val,
                                                   0)})
              /\ UNCHANGED resp
  IN  Handle(authMiddleware(header, envUser, envPass, now),
             validateSymptomName(name))

\* POST /api/admin/add-symptom, from its INSERT
AddSymptomInsert(r) ==
  LET R(status, body, steps) ==
        RouteResp(r.route, r.header, r.form, status, body, TRUE, steps, now)
  IN  /\ resp = NoResp
      /\ BagIn(r, inflight)
      /\ r.route = "/api/admin/add-symptom"
      /\ inflight' = inflight (-) SetToBag({r})
      /\ UNCHANGED <<envVars, now, tokenVars, cookie, pending, vcall, mig>>
      /\ IF \E j \in 1..Len(db.types) : db.types[j].name = r.name
           THEN \* the INSERT throws: UNIQUE constraint failed
                /\ resp' = R(500, BODY_ADD_ERROR,
                             <<"initDatabase", "authMiddleware",
                               "validateSymptomName", "select", "insert",
                               "respond">>)
                /\ UNCHANGED db
         ELSE /\ db.seq < MaxTypes
              /\ db' = [db EXCEPT !.seq = @ + 1,
                                  !.types = Append(@, [id |-> db.seq + 1,
                                                       name |-> r.name])]
              /\ resp' = R(200, BODY_ADDED,
                           <<"initDatabase", "authMiddleware",
                             "validateSymptomName", "select", "insert",
                             "respond">>)

\* DELETE /api/admin/symptom/:id, up to the await of its SELECT
DeleteSymptom(header, param) ==
  LET R(status, body, ran, steps) ==
        RouteResp("/api/admin/symptom/:id", header, <<param>>, status, body,
                  ran, steps, now)
      Handle(auth, id) ==
      /\ CanStart
      /\ UNCHANGED <<envVars, now, tokenVars, cookie, pending, vcall, db, mig>>
      /\ IF ~auth.next
           THEN /\ resp' = R(auth.status, "", FALSE,
                             <<"initDatabase", "authMiddleware">>)
                /\ UNCHANGED inflight
         ELSE IF ~id.ok
           THEN /\ resp' = R(400, id.message, TRUE,
                             <<"initDatabase", "authMiddleware", "validateId",
                               "respond">>)
                /\ UNCHANGED inflight
         ELSE IF ~TypeExists(db, id.val)
           THEN /\ resp' = R(404, BODY_NOT_FOUND, TRUE,
                             <<"initDatabase", "authMiddleware", "validateId",
                               "select", "respond">>)
                /\ UNCHANGED inflight
         ELSE /\ BagCardinality(inflight) < MaxInflight
              /\ inflight' = inflight (+)
                               SetToBag({Suspended("/api/admin/symptom/:id",
                                                   header, <<param>>, <<>>,
                                                   id.val)})
              /\ UNCHANGED resp
  IN  Handle(authMiddleware(header, envUser, envPass, now), validateId(param))

\* DELETE /api/admin/symptom/:id, from its DELETE, without ON DELETE CASCADE
DeleteSymptomDelete_NoCascade(r) ==
      /\ resp = NoResp
      /\ BagIn(r, inflight)
      /\ r.route = "/api/admin/symptom/:id"
      /\ inflight' = inflight (-) SetToBag({r})
      /\ db' = [db EXCEPT !.types = SelectSeq(@, LAMBDA t : t.id # r.id)]
      /\ resp' = RouteResp(r.route, r.header, r.form, 200, BODY_DELETED, TRUE,
                           <<"initDatabase", "authMiddleware", "validateId",
                             "select", "delete", "respond">>, now)
      /\ UNCHANGED <<envVars, now, tokenVars, cookie, pending, vcall, mig>>

\* DELETE /api/admin/symptom/:id, from its DELETE, which cascades to the
\* logs of the type
DeleteSymptomDelete(r) ==
      /\ resp = NoResp
      /\ BagIn(r, inflight)
      /\ r.route = "/api/admin/symptom/:id"
      /\ inflight' = inflight (-) SetToBag({r})
      /\ db' = [db EXCEPT
                  !.types = SelectSeq(@, LAMBDA t : t.id # r.id),
                  !.logs = SelectSeq(@, LAMBDA l : l.type_id # r.id)]
      /\ resp' = RouteResp(r.route, r.header, r.form, 200, BODY_DELETED, TRUE,
                           <<"initDatabase", "authMiddleware", "validateId",
                             "select", "delete", "respond">>, now)
      /\ UNCHANGED <<envVars, now, tokenVars, cookie, pending, vcall, mig>>

\* the messages an exception of c.env.DB may carry
DbErrors == { "D1_ERROR: no such table: symptom_types" }

\* GET /api/health, whose SELECT 1 succeeds or throws error
Health(header, error) ==
  /\ CanStart
  /\ resp' = IF error = ""
               THEN RouteResp("/api/health", header, <<>>, 200, BODY_HEALTHY,
                              TRUE, <<"initDatabase", "select", "respond">>,
                              now)
             ELSE RouteResp("/api/health", header, <<>>, 503, error, TRUE,
                            <<"initDatabase", "select", "respond">>, now)
  /\ UNCHANGED <<envVars, now, tokenVars, cookie, pending, storeVars>>

(***************************************************************************)
(* routes/api.tsx: POST /api/log-symptom with the zod schema, and the      *)
(* forms that the two symptom modals post to it.                           *)
(***************************************************************************)
STR_true == <<116, 114, 117, 101>>
STR_on == <<111, 110>>

\* what the browser posts for the modal of GET /api/symptom-modal/:id,
\* whose checkbox has value="true"
ServerModalForm(id, notes, ticked) ==
  [type_id |-> Str(id), notes |-> Str(notes),
   medication_taken |-> IF ticked THEN Str(STR_true) ELSE Undefined]

\* what the browser posts for the SymptomModal component, whose checkbox
\* has no value attribute
ClientModalForm(id, notes, ticked) ==
  [type_id |-> Str(id), notes |-> Str(notes),
   medication_taken |-> IF ticked THEN Str(STR_on) ELSE Undefined]

\* z.coerce.number() on a form field: Number(v) of a string of decimal
\* digits with whitespace around it, NaN for the other strings of the
\* model's inputs
zCoerceNumber(v) ==
  LET Number(t) ==
        IF v.t = "string" /\ Len(t) = 0 THEN [nan |-> FALSE, val |-> 0]
        ELSE IF \A k \in 1..Len(t) : IsDigit(t[k])
          THEN [nan |-> FALSE, val |-> DigitsValue(t, 1, Len(t), 0)]
        ELSE [nan |-> TRUE, val |-> 0]
  IN  Number(trim(String(v)))

\* the transform of medication_taken
medicationTransform(val) == IF val = STR_on THEN 1 ELSE 0

\* logSymptomSchema.safeParse(form)
logSymptomSchema(form) ==
  LET Parse(n, med) ==
        IF n.nan THEN FieldError("Expected number, received nan")
        ELSE IF n.val <= 0 THEN FieldError("Invalid ID")
        ELSE IF form.notes.t \notin {"string", "undefined", "null"}
          THEN FieldError("Expected string, received object")
        ELSE IF form.notes.t = "string"
                  /\ Len(form.notes.s) > MAX_NOTE_LENGTH
          THEN FieldError("Notes too long")
        ELSE Valid([type_id |-> n.val,
                    notes |-> IF form.notes.t # "string" THEN form.notes
                              ELSE IF Len(form.notes.s) = 0 THEN Null
                              ELSE Str(trim(SelectSeq(form.notes.s,
                                                      LAMBDA c : c # NUL))),
                    medication_taken |-> medicationTransform(med)])
  IN  Parse(zCoerceNumber(form.type_id),
            IF form.medication_taken.t = "undefined" THEN <<>>
            ELSE form.medication_taken.s)

\* POST /api/log-symptom of routes/api.tsx
ApiLogSymptom(header, modal, id, notes, ticked) ==
  LET Handle(form, auth, v) ==
      LET R(status, body, ran, steps) ==
        [RouteResp("/api/log-symptom", header,
                   <<form.type_id, form.notes, form.medication_taken>>,
                   status, body, ran, steps, now)
           EXCEPT !.kind = "api", !.modal = modal, !.ticked = ticked]
      IN
      /\ CanStart
      /\ UNCHANGED <<envVars, now, tokenVars, cookie, pending, vcall,
                     inflight, mig>>
      /\ IF ~auth.next
           THEN /\ resp' = R(auth.status, "", FALSE,
                             <<"initDatabase", "authMiddleware">>)
                /\ UNCHANGED db
         ELSE IF ~v.ok
           THEN /\ resp' = R(400, v.message, FALSE,
                             <<"initDatabase", "authMiddleware", "zValidator">>)
                /\ UNCHANGED db
         ELSE IF ~TypeExists(db, v.val.type_id)
           THEN \* the INSERT throws and nothing catches: Hono answers 500
                /\ resp' = R(500, BODY_INTERNAL, TRUE,
                             <<"initDatabase", "authMiddleware", "zValidator",
                               "insert">>)
                /\ UNCHANGED db
         ELSE /\ Len(db.logs) < MaxRows
              /\ db' = [db EXCEPT !.logs =
                          Append(@, [type_id |-> v.val.type_id,
                                     notes |-> v.val.notes,
                                     medication_taken |->
                                       v.val.medication_taken,
                                     date |-> today(now)])]
              /\ resp' = R(200, BODY_LOGGED, TRUE,
                           <<"initDatabase", "authMiddleware", "zValidator",
                             "insert", "respond">>)
      Post(form) ==
        Handle(form, authMiddleware(header, envUser, envPass, now),
               logSymptomSchema(form))
  IN  Post(IF modal = "server" THEN ServerModalForm(id, notes, ticked)
           ELSE ClientModalForm(id, notes, ticked))

\* the Cookie headers of the requests that write: the client's cookie, or
\* none
StoreHeaders ==
  (IF cookie.set THEN { Header(cookie.value) } ELSE {}) \cup { NoHeader }

\* the type_id fields a client may post
RawTypeIds ==
  { Str(<<DIGIT0 + 1>>),                                 \* "1"
    Str(<<DIGIT0 + 7>> \o STR_a \o STR_b),               \* "7ab"
    Str(<<DIGIT0>>) }                                    \* "0"

\* the notes fields a client may post
RawNotes ==
  { Undefined,
    Str(Chars(MAX_NOTE_LENGTH + 1, LOWER_A)),
    FileField }

\* the name fields a client may post
RawNames ==
  { Str(STR_a \o STR_b),                                 \* "ab"
    Str(<<UPPER_A>> \o STR_b),                           \* "Ab"
    Str(<<SPACE>> \o LOWER(KW_DROP)),                    \* " drop"
    Str(Chars(MAX_SYMPTOM_NAME_LENGTH, LOWER_A) \o <<SPACE>> \o KW_DROP) }

\* the username fields a client may post to the login
StoreUsers == { Str(envUser), Str(STR_x), Undefined }

\* the instant the delay of a login started at Epoch ends
StoreInstants == { Epoch + LOGIN_DELAY_MS }

\* the id parameters a client may put in DELETE /api/admin/symptom/:id
RawParams ==
  { Str(<<DIGIT0 + 1>>),                                 \* "1"
    Str(STR_x) }                                         \* "x"

\* the fields of the requests that write while logins go on
StoreTypeIds == { Str(<<DIGIT0 + 1>>) }
StoreNotes == { Undefined }
StoreNames == { Str(STR_a \o STR_b) }

InitStore ==
  /\ envUser = STR_a /\ envPass = STR_b
  /\ now = Epoch
  /\ tok = <<>>
  /\ tokInfo = NoInfo
  /\ verdict = NoVerdict
  /\ cookie = NoCookie
  /\ pending = <<>>
  /\ resp = NoResp
  /\ db = EmptyDb
  /\ vcall = NoCall
  /\ inflight = EmptyBag
  /\ mig = NoMigrations

NextStore ==
  \/ \E u \in StoreUsers : Login(u, Str(envPass), STR_i)
  \/ LoginTimer
  \/ \E h \in StoreHeaders, id \in StoreTypeIds, notes \in StoreNotes :
       LogSymptom(h, id, notes)
  \/ \E h \in StoreHeaders, name \in StoreNames : AddSymptom(h, name)
  \/ \E r \in BagToSet(inflight) : AddSymptomInsert(r)
  \/ \E h \in StoreHeaders, error \in DbErrors \cup {""} : Health(h, error)
  \/ Deliver
  \/ \E t \in StoreInstants : Tick(t)

SpecStore == InitStore /\ [][NextStore]_vars

\* the Cookie header of the administrator's requests
AdminHeaders == { Header(cookie.value) }

\* the worker with a client that logged in at Epoch
InitAdmin ==
  /\ envUser = STR_a /\ envPass = STR_b
  /\ now = Epoch
  /\ tok = <<>>
  /\ tokInfo = NoInfo
  /\ verdict = NoVerdict
  /\ cookie = setAuthCookie(envUser, envPass, Epoch, STR_nonce).val
  /\ pending = <<>>
  /\ resp = NoResp
  /\ db = EmptyDb
  /\ vcall = NoCall
  /\ inflight = EmptyBag
  /\ mig = NoMigrations

\* the fields the administrator posts while requests interleave
AdminNames ==
  { Str(STR_a \o STR_b),                                 \* "ab"
    Str(<<UPPER_A>> \o STR_b),                           \* "Ab"
    Str(<<SPACE>> \o LOWER(KW_DROP)) }                   \* " drop"

AdminTypeIds ==
  { Str(<<DIGIT0 + 1>>),                                 \* "1"
    Str(<<DIGIT0>>) }                                    \* "0"

AdminNotes == { Undefined, FileField }

NextAdmin ==
  \/ \E h \in AdminHeaders, name \in AdminNames : AddSymptom(h, name)
  \/ \E r \in BagToSet(inflight) : AddSymptomInsert(r)
  \/ \E h \in AdminHeaders, param \in RawParams : DeleteSymptom(h, param)
  \/ \E r \in BagToSet(inflight) : DeleteSymptomDelete(r)
  \/ \E h \in AdminHeaders, id \in AdminTypeIds, notes \in AdminNotes :
       LogSymptom(h, id, notes)
  \/ \E h \in AdminHeaders, modal \in {"server", "client"}, ticked \in BOOLEAN :
       ApiLogSymptom(h, modal, <<DIGIT0 + 1>>, <<>>, ticked)
  \/ Deliver

SpecAdmin == InitAdmin /\ [][NextAdmin]_vars

\* the routes of index.tsx that insert, with fields at the validators' limits
NextWrite ==
  \/ \E h \in AdminHeaders, name \in RawNames : AddSymptom(h, name)
  \/ \E r \in BagToSet(inflight) : AddSymptomInsert(r)
  \/ \E h \in AdminHeaders, id \in RawTypeIds, notes \in RawNotes :
       LogSymptom(h, id, notes)
  \/ Deliver

SpecWrite == InitAdmin /\ [][NextWrite]_vars

Count(steps, x) == Cardinality({ k \in 1..Len(steps) : steps[k] = x })

GenericBodies ==
  { "", BODY_SUCCESS, BODY_INVALID, BODY_SERVER_ERROR, BODY_LOGGED,
    BODY_LOG_ERROR, BODY_ADDED, BODY_EXISTS, BODY_ADD_ERROR, BODY_NOT_FOUND,
    BODY_DELETED, BODY_INTERNAL, BODY_HEALTHY }

\* the messages of the ValidationErrors of lib/validation.ts
ValidationMessages ==
  { "Username and password are required", "Invalid credentials format",
    "Credentials too long", "Invalid ID", "Notes must be a string",
    "Symptom name is required", "Symptom name cannot be empty",
    "Invalid characters in symptom name" }

\* C21: No response body contains raw exception text: the body is one of a
\* fixed set of generic messages, or the message of a named
\* ValidationError.
C21_NoRawExceptionText ==
  resp.kind # "none" => resp.body \in GenericBodies \cup ValidationMessages

\* C28: sanitizeString is idempotent and its result is clean: sanitizing
\* the result again with the same limit gives the result, which has at
\* most n characters, no NUL and no whitespace at either end.
C28_SanitizeIdempotent ==
  vcall.fn = "sanitizeString" =>
    LET n == vcall.args[2]
        y == vcall.out.val.s
    IN  /\ sanitizeString(Str(y), n) = y
        /\ Len(y) <= n
        /\ \A k \in 1..Len(y) : y[k] # NUL
        /\ Len(y) > 0 => ~IsJsWhitespace(y[1]) /\ ~IsJsWhitespace(y[Len(y)])

\* C24: Symptom names stay unique ignoring case: no two rows of
\* symptom_types have names that are equal case-insensitively, also after
\* add-symptom requests that ran concurrently.
C24_NamesUniqueIgnoringCase ==
  \A i \in 1..Len(db.types), j \in 1..Len(db.types) :
    i # j => LOWER(db.types[i].name) # LOWER(db.types[j].name)

\* the response is the one of DELETE /api/admin/symptom/:id
IsDeleteResp(r) == r.kind = "route" /\ r.route = "/api/admin/symptom/:id"

ValidatorsOf(r) ==
  IF r.route = "/api/log-symptom"
    THEN <<validateId(r.form[1]), validateNotes(r.form[2])>>
  ELSE IF r.route = "/api/admin/add-symptom"
    THEN <<validateSymptomName(r.form[1])>>
  ELSE <<validateId(r.form[1])>>

\* the response is one of a handler of index.tsx whose validation failed
ValidationFailed(r) ==
  /\ r.kind = "route" /\ r.handlerRan
  /\ r.route \in {"/api/log-symptom", "/api/admin/add-symptom",
                  "/api/admin/symptom/:id"}
  /\ \E k \in 1..Len(ValidatorsOf(r)) : ~ValidatorsOf(r)[k].ok

ValidatorSteps == {"validateId", "validateNotes", "validateSymptomName"}

\* in steps, every validator runs before every step of the set accesses
ValidatedBefore(steps, accesses) ==
  \A i \in 1..Len(steps), j \in 1..Len(steps) :
    (steps[i] \in accesses /\ steps[j] \in ValidatorSteps) => j < i

\* C29: A validation failure leaves storage unchanged: when a validator
\* throws inside log-symptom, add-symptom or delete-symptom, the response
\* has status 400 and no INSERT or DELETE is executed; validation completes
\* before the first storage access of the request.
C29_ValidationBeforeStorage ==
  /\ ValidationFailed(resp) =>
       /\ resp.status = 400
       /\ \A k \in 1..Len(resp.steps) :
            resp.steps[k] \notin {"insert", "delete"}
  /\ (resp.kind = "route" /\ resp.handlerRan) =>
       ValidatedBefore(resp.steps,
                       {"initDatabase", "select", "insert", "delete"})

\* C29, amended: a validation failure is answered 400 with no INSERT and
\* no DELETE executed, and validation completes before the first storage
\* access of the handler (the initDatabase middleware has run its CREATE
\* ... IF NOT EXISTS statements before).
C29_ValidationBeforeHandlerStorage ==
  /\ ValidationFailed(resp) =>
       /\ resp.status = 400
       /\ \A k \in 1..Len(resp.steps) :
            resp.steps[k] \notin {"select", "insert", "delete"}
  /\ (resp.kind = "route" /\ resp.handlerRan) =>
       ValidatedBefore(resp.steps, {"select", "insert", "delete"})

\* notes that are not a string were posted with a valid type_id, for a type
\* that exists
C29_Witness ==
  /\ ValidationFailed(resp)
  /\ resp.route = "/api/log-symptom"
  /\ ValidatorsOf(resp)[1].ok
  /\ TypeExists(db, ValidatorsOf(resp)[1].val)

\* C30: Medication flag is recorded faithfully: a form submitted with the
\* medication checkbox ticked inserts a row with medication_taken = 1, and
\* one with the box not ticked a row with medication_taken = 0, for the
\* server-rendered modal and for the client-component modal.
C30_MedicationFaithful ==
  (resp.kind = "api" /\ resp.status = 200) =>
    db.logs[Len(db.logs)].medication_taken = (IF resp.ticked THEN 1 ELSE 0)

(***************************************************************************)
(* scripts/run-migrations.sh as a state machine: each wrangler command is  *)
(* a step that succeeds or fails.                                          *)
(***************************************************************************)
\* how many times one migration file may be executed
MaxExecutions == 2

\* the script exits with status code
Exit(m, code) == [m EXCEPT !.pc = "idle", !.exit = code]

\* lines 5-40: CREATE TABLE IF NOT EXISTS schema_migrations, then the
\* SELECT of the applied versions, whose failure leaves APPLIED_MIGRATIONS
\* empty (2>/dev/null ... || echo "")
MigrateStart(createOk, selectOk) ==
  /\ mig.pc = "idle"
  /\ mig' = IF ~createOk
              THEN [Exit(mig, 1) EXCEPT !.runLog = <<>>,
                                        !.atStart = mig.applied]
              ELSE [mig EXCEPT !.pc = "loop", !.idx = 1,
                               !.snapshot = IF selectOk THEN mig.applied
                                            ELSE {},
                               !.atStart = mig.applied, !.runLog = <<>>]
  /\ UNCHANGED <<envVars, now, tokenVars, httpVars, db, vcall, inflight>>

\* lines 42-65: one turn of the loop over MIGRATION_FILES
MigrateFile(execOk, recordOk) ==
  LET v == MIGRATION_FILES[mig.idx]
  IN  /\ mig.pc = "loop"
      /\ mig.idx <= Len(MIGRATION_FILES)
      /\ UNCHANGED <<envVars, now, tokenVars, httpVars, db, vcall, inflight>>
      /\ IF v \in mig.snapshot
           THEN \* already applied: continue
                mig' = [mig EXCEPT !.idx = @ + 1]
         ELSE IF ~execOk
           THEN \* wrangler d1 execute --file fails: exit 1
                mig' = Exit(mig, 1)
         ELSE /\ mig.executed[v] < MaxExecutions
              /\ LET ran == [mig EXCEPT !.executed[v] = @ + 1,
                                        !.runLog = Append(@, v)]
                 IN  mig' = IF recordOk
                              THEN [ran EXCEPT !.applied = @ \cup {v},
                                               !.idx = @ + 1]
                              ELSE \* the INSERT fails under set -e
                                   Exit(ran, 1)

\* lines 67-77: the summary, and exit 0
MigrateDone ==
  /\ mig.pc = "loop"
  /\ mig.idx > Len(MIGRATION_FILES)
  /\ mig' = Exit(mig, 0)
  /\ UNCHANGED <<envVars, now, tokenVars, httpVars, db, vcall, inflight>>

InitMigrate ==
  /\ envUser = STR_a /\ envPass = STR_b
  /\ now = Epoch
  /\ tok = <<>>
  /\ tokInfo = NoInfo
  /\ verdict = NoVerdict
  /\ cookie = NoCookie
  /\ pending = <<>>
  /\ resp = NoResp
  /\ db = EmptyDb
  /\ vcall = NoCall
  /\ inflight = EmptyBag
  /\ mig = NoMigrations

NextMigrate ==
  \/ \E createOk \in BOOLEAN, selectOk \in BOOLEAN :
       MigrateStart(createOk, selectOk)
  \/ \E execOk \in BOOLEAN, recordOk \in BOOLEAN : MigrateFile(execOk, recordOk)
  \/ MigrateDone

SpecMigrate == InitMigrate /\ [][NextMigrate]_vars

\* C23: Migrations run once and in order: across any sequence of runs,
\* runs that stop at a failing step included, every migration file is
\* executed at most once, a run executes its migrations in ascending
\* version order, and it executes none that schema_migrations recorded
\* when it started.
C23_MigrateOnce ==
  /\ \A v \in Versions : mig.executed[v] <= 1
  /\ \A i \in 1..Len(mig.runLog), j \in 1..Len(mig.runLog) :
       i < j => \E a \in 1..Len(MIGRATION_FILES) :
                  \E b \in 1..Len(MIGRATION_FILES) :
                    /\ a < b
                    /\ MIGRATION_FILES[a] = mig.runLog[i]
                    /\ MIGRATION_FILES[b] = mig.runLog[j]
  /\ \A i \in 1..Len(mig.runLog) : mig.runLog[i] \notin mig.atStart

(***************************************************************************)
(* Tokens that were not issued, rotation of the configured credential,     *)
(* and copies of a session's token.                                        *)
(***************************************************************************)
\* the payload is '<user>:<password>:<ts>' for the instant t, followed by
\* nothing or by something that is not a digit
HasClaimedForm(x, u, p, t) ==
  LET head == Join3(u, p, toDecimal(t))
  IN  /\ Len(x) >= Len(head)
      /\ SubSeq(x, 1, Len(head)) = head
      /\ Len(x) > Len(head) => ~IsDigit(x[Len(head) + 1])

\* C27: Acceptance does not depend on server issuance: validateToken
\* accepts every string, issued or not, whose base64 decoding is
\* '<configured user>:<configured password>:<ts>' followed by anything,
\* when ts is between now - expiry and now.
C27_UnissuedAccepted ==
  (tokInfo.kind = "forged" /\ verdict.called) =>
    \A x \in ForgedPayloads(envUser, envPass), t \in Instants :
      (/\ btoa(x).val = tok
       /\ HasClaimedForm(x, envUser, envPass, t)
       /\ verdict.at - maxAgeMs <= t /\ t <= verdict.at) => verdict.out.value

\* the pairs the configured credential is rotated among: in the second,
\* the password of the first is followed by ':' and digits
RotatePairs ==
  { <<STR_a, STR_b>>,
    <<STR_a, STR_b \o <<COLON>> \o toDecimal(Epoch)>>,
    <<STR_a, STR_c>> }

\* the operator sets TRACKME_USER / TRACKME_PASSWORD to another pair
Rotate(pair) ==
  /\ pair # <<envUser, envPass>>
  /\ envUser' = pair[1]
  /\ envPass' = pair[2]
  /\ verdict' = NoVerdict
  /\ UNCHANGED <<now, tok, tokInfo, httpVars, storeVars>>

\* the clock values of the rotation runs
RotateInstants == { Epoch + 1, Epoch + maxAgeMs, Epoch + maxAgeMs + 1 }

InitRotate ==
  /\ \E c \in RotatePairs : envUser = c[1] /\ envPass = c[2]
  /\ now = Epoch
  /\ tok = <<>>
  /\ tokInfo = NoInfo
  /\ verdict = NoVerdict
  /\ cookie = NoCookie
  /\ pending = <<>>
  /\ resp = NoResp
  /\ db = EmptyDb
  /\ vcall = NoCall
  /\ inflight = EmptyBag
  /\ mig = NoMigrations

NextRotate ==
  \/ \E r \in Randoms : Issue(r)
  \/ \E c \in RotatePairs : Rotate(c)
  \/ Validate
  \/ Discard
  \/ \E t \in RotateInstants : TickToken(t)

SpecRotate == InitRotate /\ [][NextRotate]_vars

\* C22: Rotating the configured credential revokes all sessions: once the
\* configured pair differs from the pair a token was issued under,
\* validateToken rejects the token, whatever its age.
C22_RotationRevokes ==
  (tokInfo.kind = "issued" /\ verdict.called
     /\ tokInfo.pair # <<envUser, envPass>>) => ~verdict.out.value

\* the client keeps a copy of the token of its cookie
CopyToken ==
  /\ cookie.set
  /\ tokInfo = NoInfo
  /\ tok' = cookie.value
  /\ tokInfo' = [kind |-> "copied", at |-> cookie.setAt, orig |-> cookie.value,
                 pair |-> <<envUser, envPass>>]
  /\ UNCHANGED <<envVars, now, verdict, httpVars, storeVars>>

\* the Cookie headers of a client that may have kept a copy of its token
SessionHeaders ==
  (IF cookie.set THEN { Header(cookie.value) } ELSE {})
    \cup (IF tokInfo.kind = "copied" THEN { Header(tok) } ELSE {})
    \cup { NoHeader }

SessionRoutes == { "/", "/api/history-items" }

NextSession ==
  \/ \E r \in Randoms : Login(Str(envUser), Str(envPass), r)
  \/ CopyToken
  \/ \E h \in SessionHeaders, route \in SessionRoutes : Request(route, h)
  \/ \E h \in SessionHeaders : Logout(h)
  \/ Deliver
  \/ \E t \in Instants : Tick(t)

SpecSession == Init /\ [][NextSession]_vars

\* C26: Logout does not revoke the token on the server: a copy of a token
\* that validateToken accepted when it was issued, presented as the
\* auth_token cookie after the client's cookie is gone, is served at every
\* time up to issued_at + expiry.
C26_LogoutDoesNotRevoke ==
  (/\ resp.kind = "route"
   /\ tokInfo.kind = "copied"
   /\ resp.header = Header(tok)
   /\ ~cookie.set
   /\ Accepts(tok, envUser, envPass, tokInfo.at)
   /\ tokInfo.at <= resp.at
   /\ resp.at <= tokInfo.at + TOKEN_EXPIRY_DAYS * 24 * 60 * 60 * 1000) =>
    /\ resp.handlerRan
    /\ validateToken(tok, envUser, envPass, resp.at) = Returned(TRUE)

\* the copy was served after the logout, one millisecond before it expired
C26_Witness ==
  /\ resp.kind = "route"
  /\ tokInfo.kind = "copied"
  /\ resp.header = Header(tok)
  /\ ~cookie.set
  /\ resp.handlerRan
  /\ resp.at = tokInfo.at + maxAgeMs - 1

====
